---- MODULE Spec2Model ----
(***************************************************************************)
(* Model of two pieces of the dashboard:                                   *)
(*   - ConnectionIcon, which derives an image path from a connection name  *)
(*     and the resolved UI theme;                                          *)
(*   - getSessionAccessToken / useSessionAccessTokenQuery, which wrap the  *)
(*     auth SDK's getAccessToken in exception suppression and expose it    *)
(*     through a query.                                                    *)
(* JavaScript strings that the code inspects or builds (names, themes,     *)
(* paths) are sequences of one-character strings, so that toLowerCase,     *)
(* includes and template concatenation are computed, not assumed.          *)
(***************************************************************************)
EXTENDS Integers, Sequences, FiniteSets, TLC

VARIABLES
    basePath,       \* BASE_PATH of lib/constants
    resolvedTheme,  \* useTheme().resolvedTheme: a string or undefined
    icons,          \* mounted ConnectionIcon elements: connection prop and rendered src
    hasWindow,      \* whether typeof window is not 'undefined'
    inv,            \* invocations of getSessionAccessToken
    hook,           \* the call of useSessionAccessTokenQuery: caller options, useQuery arguments
    query           \* the query's state as its consumers see it

vars == <<basePath, resolvedTheme, icons, hasWindow, inv, hook, query>>
iconVars == <<basePath, resolvedTheme, icons>>
tokenVars == <<hasWindow, inv, hook, query>>

\* JavaScript's undefined and null as token values, and a slot that holds nothing.
Undefined == "<undefined>"
Null == "<null>"
None == "<none>"

\* undefined where a character sequence is expected: no JavaScript string.
UndefinedStr == <<"<undefined>">>

(***************************************************************************)
(* ConnectionIcon                                                          *)
(***************************************************************************)

\* Number of ConnectionIcon elements on the page.
NumIcons == 2

IconIds == 1..NumIcons

\* String.prototype.toLowerCase on one character.
LowerChar(c) ==
    CASE c = "A" -> "a" [] c = "B" -> "b" [] c = "C" -> "c" [] c = "D" -> "d"
      [] c = "E" -> "e" [] c = "F" -> "f" [] c = "G" -> "g" [] c = "H" -> "h"
      [] c = "I" -> "i" [] c = "J" -> "j" [] c = "K" -> "k" [] c = "L" -> "l"
      [] c = "M" -> "m" [] c = "N" -> "n" [] c = "O" -> "o" [] c = "P" -> "p"
      [] c = "Q" -> "q" [] c = "R" -> "r" [] c = "S" -> "s" [] c = "T" -> "t"
      [] c = "U" -> "u" [] c = "V" -> "v" [] c = "W" -> "w" [] c = "X" -> "x"
      [] c = "Y" -> "y" [] c = "Z" -> "z" [] OTHER -> c

\* connection.toLowerCase()
ToLowerCase(s) == [k \in 1..Len(s) |-> LowerChar(s[k])]

\* String.prototype.includes: sub occurs in s at some offset.
StrIncludes(s, sub) ==
    \E k \in 0..(Len(s) - Len(sub)) : SubSeq(s, k + 1, k + Len(sub)) = sub

\* String.prototype.endsWith.
StrEndsWith(s, sub) ==
    /\ Len(s) >= Len(sub)
    /\ SubSeq(s, Len(s) - Len(sub) + 1, Len(s)) = sub

Str_dark == <<"d", "a", "r", "k">>
Str_expo == <<"e", "x", "p", "o">>
Str_nextjs == <<"n", "e", "x", "t", "j", "s">>
Str_postgres == <<"p", "o", "s", "t", "g", "r", "e", "s">>
Str_DarkSuffix == <<"-", "d", "a", "r", "k">>
Str_classic_dark == <<"c", "l", "a", "s", "s", "i", "c", "-", "d", "a", "r", "k">>
Str_ImgLibraries ==
    <<"/", "i", "m", "g", "/", "l", "i", "b", "r", "a", "r", "i", "e", "s", "/">>
Str_IconSvg == <<"-", "i", "c", "o", "n", ".", "s", "v", "g">>

\* The literal ['expo', 'nextjs'].
SpecialCased == {Str_expo, Str_nextjs}

\* Fault: the theme is compared with 'dark' instead of searched for it.
ThemeIsDarkExact(theme) == theme = Str_dark

\* resolvedTheme?.includes('dark'): undefined (falsy) when the theme is undefined.
ThemeIsDark(theme) ==
    IF theme = UndefinedStr THEN FALSE ELSE StrIncludes(theme, Str_dark)

\* Fault: the suffix is given to every name, special-cased or not.
DarkSuffixAnyName(connection, theme) ==
    IF ThemeIsDark(theme) THEN Str_DarkSuffix ELSE <<>>

\* The nested conditional of the template: '-dark' or ''.
DarkSuffix(connection, theme) ==
    IF ToLowerCase(connection) \in SpecialCased
    THEN IF ThemeIsDark(theme) THEN Str_DarkSuffix ELSE <<>>
    ELSE <<>>

\* Fault: the name is put in the path as given, not lower-cased.
ConnectionIconSrcNoLower(base, connection, theme) ==
    base \o Str_ImgLibraries \o connection
         \o DarkSuffix(connection, theme) \o Str_IconSvg

\* The src attribute ConnectionIcon gives to Image.
ConnectionIconSrc(base, connection, theme) ==
    base \o Str_ImgLibraries \o ToLowerCase(connection)
         \o DarkSuffix(connection, theme) \o Str_IconSvg

\* One render of the component: the element it returns.
ConnectionIcon(base, connection, theme) ==
    [ mounted |-> TRUE,
      connection |-> connection,
      src |-> ConnectionIconSrc(base, connection, theme) ]

\* Values of BASE_PATH: unset, or a deployment prefix.
BasePaths == {<<>>, <<"/", "d">>}

\* Values of resolvedTheme.
Themes ==
    { UndefinedStr,
      Str_dark,
      <<"l", "i", "g", "h", "t">>,
      Str_classic_dark,
      <<"D", "a", "r", "k">> }

\* Connection names passed as the connection prop.
Connections ==
    { Str_expo, Str_nextjs, Str_postgres,
      <<"N", "e", "x", "t", "J", "S">>,
      <<"E", "x", "p", "o">>,
      <<"P", "o", "s", "t", "g", "r", "e", "s">>,
      <<"n", "e", "x", "t">> }

Unmounted == [mounted |-> FALSE, connection |-> <<>>, src |-> <<>>]

IconInit ==
    /\ basePath \in BasePaths
    /\ resolvedTheme \in Themes
    /\ icons = [i \in IconIds |-> Unmounted]

\* A parent renders icon i with a connection name.
Render(i, c) ==
    /\ icons' = [icons EXCEPT ![i] = ConnectionIcon(basePath, c, resolvedTheme)]
    /\ UNCHANGED <<basePath, resolvedTheme>>

\* The theme provider changes the resolved theme; every mounted icon, a
\* consumer of useTheme, renders again.
SetTheme(t) ==
    /\ t # resolvedTheme
    /\ resolvedTheme' = t
    /\ icons' = [i \in IconIds |->
                    IF ~icons[i].mounted THEN icons[i]
                    ELSE ConnectionIcon(basePath, icons[i].connection, t)]
    /\ UNCHANGED basePath

IconNext ==
    \/ \E i \in IconIds, c \in Connections : Render(i, c) /\ UNCHANGED tokenVars
    \/ \E t \in Themes : SetTheme(t) /\ UNCHANGED tokenVars

(***************************************************************************)
(* getSessionAccessToken                                                   *)
(***************************************************************************)

\* Number of invocations of getSessionAccessToken in a run.
NumInvocations == 2

InvIds == 1..NumInvocations

EmptyString == ""

\* What getAccessToken can yield: a token, or another value.
TokenValues == {"tokenA", "tokenB", Undefined, Null}

\* What getAccessToken can fail with.
ErrorValues == {"AuthSessionMissingError", "NetworkError"}

NoOutcome == [kind |-> "none", val |-> None]

\* getAccessToken throws before returning a promise.
Throws == [kind : {"throw"}, val : ErrorValues]

\* The promise getAccessToken returned settles.
Settlements == [kind : {"fulfil"}, val : TokenValues] \cup [kind : {"reject"}, val : ErrorValues]

Failed(o) == o.kind \in {"throw", "reject"}

Idle ==
    [ pc |-> "idle", owner |-> "none", calls |-> 0, outcome |-> NoOutcome,
      result |-> None, overlaps |-> {} ]

\* Fault: the server-side guard is missing.
IsServerSideNever(w) == FALSE

\* typeof window === 'undefined'
IsServerSide(w) == ~w

\* Fault: the catch block rethrows.
TryAwaitRethrow(o) ==
    IF o.kind = "fulfil"
    THEN [pc |-> "resolved", result |-> o.val]
    ELSE [pc |-> "rejected", result |-> o.val]

\* Fault: a fulfilment with undefined is turned into null.
TryAwaitCoalesce(o) ==
    IF o.kind = "fulfil" /\ o.val # Undefined
    THEN [pc |-> "resolved", result |-> o.val]
    ELSE [pc |-> "resolved", result |-> Null]

\* try { return await getAccessToken() } catch (e) { return null }: how the
\* invocation's promise settles, given how the call ended.
TryAwait(o) ==
    IF o.kind = "fulfil"
    THEN [pc |-> "resolved", result |-> o.val]
    ELSE [pc |-> "resolved", result |-> Null]

\* Invocations are numbered in the order they start.
NextToStart(i) ==
    /\ inv[i].pc = "idle"
    /\ \A j \in InvIds : j < i => inv[j].pc # "idle"

Awaiting == {j \in InvIds : inv[j].pc = "awaiting"}

\* getSessionAccessToken up to its first suspension: the server-side return,
\* or the call of getAccessToken, which either throws at once (sync in Throws,
\* caught in the same step) or returns a promise the invocation awaits.
Invoke(i, owner, sync) ==
    /\ NextToStart(i)
    /\ inv' = [inv EXCEPT ![i] =
          IF IsServerSide(hasWindow)
          THEN [ Idle EXCEPT !.pc = "resolved", !.owner = owner,
                             !.result = EmptyString, !.overlaps = Awaiting ]
          ELSE IF sync.kind = "throw"
          THEN [ Idle EXCEPT !.pc = TryAwait(sync).pc, !.owner = owner, !.calls = 1,
                             !.outcome = sync, !.result = TryAwait(sync).result,
                             !.overlaps = Awaiting ]
          ELSE [ Idle EXCEPT !.pc = "awaiting", !.owner = owner, !.calls = 1,
                             !.overlaps = Awaiting ]]

\* Fault: a failed call is retried once before giving up.
SettleRetry(i, o) ==
    /\ inv[i].pc = "awaiting"
    /\ inv' = [inv EXCEPT ![i] =
          IF Failed(o) /\ inv[i].calls < 2
          THEN [@ EXCEPT !.calls = @ + 1]
          ELSE [@ EXCEPT !.pc = TryAwait(o).pc, !.outcome = o,
                         !.result = TryAwait(o).result]]
    /\ UNCHANGED <<hasWindow, hook, query>>

\* Fault: a failure is shared with every invocation still awaiting.
SettleShared(i, o) ==
    /\ inv[i].pc = "awaiting"
    /\ inv' = [j \in InvIds |->
          IF j = i \/ (inv[j].pc = "awaiting" /\ Failed(o))
          THEN [inv[j] EXCEPT !.pc = TryAwait(o).pc, !.outcome = o,
                              !.result = TryAwait(o).result]
          ELSE inv[j]]
    /\ UNCHANGED <<hasWindow, hook, query>>

\* The awaited promise of invocation i settles with o and the invocation
\* runs to its return.
Settle(i, o) ==
    /\ inv[i].pc = "awaiting"
    /\ inv' = [inv EXCEPT ![i] =
          [@ EXCEPT !.pc = TryAwait(o).pc, !.outcome = o, !.result = TryAwait(o).result]]
    /\ UNCHANGED <<hasWindow, hook, query>>

\* A caller other than the query invokes getSessionAccessToken.
Call(i, sync) ==
    /\ Invoke(i, "direct", sync)
    /\ UNCHANGED <<hasWindow, hook, query>>

(***************************************************************************)
(* useSessionAccessTokenQuery                                              *)
(***************************************************************************)

\* The value of authKeys.accessToken().
authKeys_accessToken == "authKeys.accessToken()"

\* Options a caller may pass, each a boolean of UseQueryOptions.
OptionNames == {"enabled", "retry"}

CallerOptions == UNION {[D -> BOOLEAN] : D \in SUBSET OptionNames}

\* Fault: the caller's options are forwarded whole, enabled included.
RestKeepEnabled(opts) == opts

\* { enabled = true, ...options }: the rest of the caller's options.
Rest(opts) == [k \in DOMAIN opts \ {"enabled"} |-> opts[k]]

\* The arguments useSessionAccessTokenQuery gives to useQuery.
UseQueryArgs(opts) == [queryKey |-> authKeys_accessToken, options |-> Rest(opts)]

\* useQuery runs the query function unless its options say enabled: false.
QueryEnabled(options) ==
    ~("enabled" \in DOMAIN options /\ options["enabled"] = FALSE)

NotCalled == [called |-> FALSE, options |-> <<>>, queryKey |-> None, queryOptions |-> <<>>]

NoQuery == [status |-> "none", data |-> Undefined, error |-> None, fetching |-> 0, last |-> 0]

\* A component calls the hook: useQuery gets the key, the query function and
\* the remaining options, and the query starts out loading with no data.
UseSessionAccessTokenQuery(opts) ==
    /\ ~hook.called
    /\ hook' = [ called |-> TRUE, options |-> opts,
                 queryKey |-> UseQueryArgs(opts).queryKey,
                 queryOptions |-> UseQueryArgs(opts).options ]
    /\ query' = [NoQuery EXCEPT !.status = "loading"]
    /\ UNCHANGED <<hasWindow, inv>>

\* useQuery fetches (on mount, or again on refetch): it runs the query
\* function () => getSessionAccessToken(); one fetch at a time.
QueryFetch(i, sync) ==
    /\ hook.called
    /\ QueryEnabled(hook.queryOptions)
    /\ query.fetching = 0
    /\ Invoke(i, "query", sync)
    /\ query' = [query EXCEPT !.fetching = i]
    /\ UNCHANGED <<hasWindow, hook>>

\* useQuery sees the query function's promise settle: data on fulfilment,
\* the error state on rejection.
QueryObserve(i) ==
    /\ i # 0
    /\ query.fetching = i
    /\ inv[i].pc \in {"resolved", "rejected"}
    /\ query' = IF inv[i].pc = "resolved"
                THEN [query EXCEPT !.status = "success", !.data = inv[i].result,
                                   !.error = None, !.fetching = 0, !.last = i]
                ELSE [query EXCEPT !.status = "error", !.error = inv[i].result,
                                   !.fetching = 0, !.last = i]
    /\ UNCHANGED <<hasWindow, hook, inv>>

TokenInit ==
    /\ hasWindow \in BOOLEAN
    /\ inv = [i \in InvIds |-> Idle]
    /\ hook = NotCalled
    /\ query = NoQuery

TokenNext ==
    \/ \E i \in InvIds, s \in {NoOutcome} \cup Throws : Call(i, s) /\ UNCHANGED iconVars
    \/ \E i \in InvIds, o \in Settlements : Settle(i, o) /\ UNCHANGED iconVars
    \/ \E opts \in CallerOptions : UseSessionAccessTokenQuery(opts) /\ UNCHANGED iconVars
    \/ \E i \in InvIds, s \in {NoOutcome} \cup Throws : QueryFetch(i, s) /\ UNCHANGED iconVars
    \/ \E i \in InvIds : QueryObserve(i) /\ UNCHANGED iconVars

(***************************************************************************)
(* Specifications                                                          *)
(***************************************************************************)

\* The token wrapper and its query, on a page that mounts no icon.
Init ==
    /\ basePath = <<>>
    /\ resolvedTheme = UndefinedStr
    /\ icons = [i \in IconIds |-> Unmounted]
    /\ TokenInit

Next == TokenNext

Spec == Init /\ [][Next]_vars

\* The icons, in a browser where no token is fetched.
InitIcon ==
    /\ IconInit
    /\ hasWindow = TRUE
    /\ inv = [i \in InvIds |-> Idle]
    /\ hook = NotCalled
    /\ query = NoQuery

SpecIcon == InitIcon /\ [][IconNext]_vars

(***************************************************************************)
(* Properties of getSessionAccessToken and its query (under Spec)          *)
(***************************************************************************)

Settled(i) == inv[i].pc \in {"resolved", "rejected"}

\* C1: in a browser-like context, an invocation whose getAccessToken call
\* throws or rejects, with any error value, resolves to null; no invocation
\* ever rejects.
C1_FailureResolvesToNull ==
    \A i \in InvIds :
        /\ inv[i].pc # "rejected"
        /\ (hasWindow /\ Failed(inv[i].outcome))
               => (inv[i].pc = "resolved" /\ inv[i].result = Null)

C1_Witness ==
    /\ hasWindow
    /\ \E i, j \in InvIds :
        /\ inv[i].outcome.kind = "throw" /\ inv[i].pc = "resolved" /\ inv[i].result = Null
        /\ inv[j].outcome.kind = "reject" /\ inv[j].pc = "resolved" /\ inv[j].result = Null

\* C2: outside a browser-like context an invocation resolves to the empty
\* string and getAccessToken is not called by it.
C2_ServerSideEmptyString ==
    \A i \in InvIds :
        (~hasWindow /\ inv[i].pc # "idle")
            => /\ inv[i].pc = "resolved"
               /\ inv[i].result = EmptyString
               /\ inv[i].calls = 0
               /\ inv[i].outcome = NoOutcome

C2_Witness ==
    /\ ~hasWindow
    /\ \E i \in InvIds :
        inv[i].pc = "resolved" /\ inv[i].result = EmptyString /\ inv[i].calls = 0

C7_OverlappingInvocationsIndependent ==
    [][\A i \in InvIds :
          /\ (inv[i].pc = "idle" /\ inv'[i].pc # "idle" /\ hasWindow)
                 => inv'[i].calls = 1
          /\ inv'[i] # inv[i] => \A j \in InvIds \ {i} : inv'[j] = inv[j]
          /\ (inv[i].pc = "awaiting" /\ inv'[i].pc # "awaiting")
                 => /\ inv'[i].pc = "resolved"
                    /\ inv'[i].calls = 1
                    /\ inv'[i].result = IF inv'[i].outcome.kind = "fulfil"
                                        THEN inv'[i].outcome.val ELSE Null
          /\ Settled(i) => inv'[i] = inv[i]
      ]_vars

\* Invocation i started while j was awaiting; j failed and i got its token.
C7_Witness ==
    /\ hasWindow
    /\ \E i, j \in InvIds :
        /\ j \in inv[i].overlaps
        /\ inv[j].pc = "resolved" /\ Failed(inv[j].outcome) /\ inv[j].result = Null
        /\ inv[i].pc = "resolved" /\ inv[i].outcome.kind = "fulfil"
        /\ inv[i].result = "tokenA"

\* C8: in a browser-like context an invocation has called getAccessToken
\* exactly once from its start on: never a second time, and it is never
\* settled without the call.
C8_ExactlyOneCall ==
    \A i \in InvIds :
        /\ inv[i].calls <= 1
        /\ (hasWindow /\ inv[i].pc # "idle") => inv[i].calls = 1

C8_Witness ==
    /\ hasWindow
    /\ \E i \in InvIds :
        inv[i].pc = "resolved" /\ inv[i].outcome.kind = "reject" /\ inv[i].calls = 1

\* C9: in a browser-like context a value v that getAccessToken resolves with
\* is the invocation's result, unchanged; the result is null only after a
\* failed call (or v = null) and the empty string only without a window.
C9_ValuePassedThrough ==
    \A i \in InvIds :
        inv[i].pc = "resolved" =>
            /\ (hasWindow /\ inv[i].outcome.kind = "fulfil")
                   => inv[i].result = inv[i].outcome.val
            /\ inv[i].result = Null
                   => /\ hasWindow
                      /\ Failed(inv[i].outcome) \/ inv[i].outcome = [kind |-> "fulfil", val |-> Null]
            /\ inv[i].result = EmptyString => ~hasWindow

\* getAccessToken resolved with undefined, and with a token.
C9_Witness ==
    /\ hasWindow
    /\ \E i, j \in InvIds :
        /\ inv[i].pc = "resolved"
        /\ inv[i].outcome = [kind |-> "fulfil", val |-> Undefined]
        /\ inv[i].result = Undefined
        /\ inv[j].pc = "resolved"
        /\ inv[j].outcome = [kind |-> "fulfil", val |-> "tokenB"]
        /\ inv[j].result = "tokenB"

\* C10: the options useQuery receives are the caller's options without
\* 'enabled', each other option unchanged, under the key
\* authKeys.accessToken(); whatever 'enabled' the caller passed, the fetch
\* can run whenever no fetch is in flight.
C10_EnabledOptionDropped ==
    hook.called =>
        /\ "enabled" \notin DOMAIN hook.queryOptions
        /\ DOMAIN hook.queryOptions = DOMAIN hook.options \ {"enabled"}
        /\ \A k \in DOMAIN hook.queryOptions : hook.queryOptions[k] = hook.options[k]
        /\ hook.queryKey = authKeys_accessToken
        /\ (query.fetching = 0 /\ \E i \in InvIds : inv[i].pc = "idle")
               => ENABLED (\E i \in InvIds : QueryFetch(i, NoOutcome))

\* The caller passed enabled: false (and retry), and a fetch is in flight.
C10_Witness ==
    /\ hook.called
    /\ DOMAIN hook.options = {"enabled", "retry"}
    /\ hook.options["enabled"] = FALSE
    /\ DOMAIN hook.queryOptions = {"retry"}
    /\ query.fetching # 0
    /\ inv[query.fetching].owner = "query"
    /\ inv[query.fetching].calls = 1

(***************************************************************************)
(* Properties of ConnectionIcon (under SpecIcon)                           *)
(***************************************************************************)

\* The path carries the '-dark' suffix: it ends in -dark-icon.svg.
HasDarkSuffix(src) == StrEndsWith(src, Str_DarkSuffix \o Str_IconSvg)

\* C3: for a connection name that lower-cases to 'expo' or 'nextjs', the path
\* carries the '-dark' suffix exactly when the resolved theme contains
\* 'dark'; with the theme undefined it carries none.
C3_SpecialCasedSuffixIffDark ==
    \A i \in IconIds :
        (icons[i].mounted /\ ToLowerCase(icons[i].connection) \in SpecialCased)
            => /\ HasDarkSuffix(icons[i].src)
                      <=> (/\ resolvedTheme # UndefinedStr
                           /\ StrIncludes(resolvedTheme, Str_dark))
               /\ resolvedTheme = UndefinedStr
                      => ~StrIncludes(icons[i].src, Str_DarkSuffix)

\* 'Expo' under the theme 'classic-dark' has the suffix.
C3_Witness ==
    /\ resolvedTheme = Str_classic_dark
    /\ \E i \in IconIds :
        /\ icons[i].mounted
        /\ icons[i].connection = <<"E", "x", "p", "o">>
        /\ HasDarkSuffix(icons[i].src)

\* C4 as stated: a connection name that is not literally 'expo' or 'nextjs'
\* never gets a path with the '-dark' suffix.
C4_Original ==
    \A i \in IconIds :
        (icons[i].mounted /\ icons[i].connection \notin SpecialCased)
            => ~HasDarkSuffix(icons[i].src)

\* C4, amended: a connection name whose lower-cased form is neither 'expo'
\* nor 'nextjs' gets, under every theme, the path
\* BASE_PATH/img/libraries/<lower-cased name>-icon.svg: no '-dark' suffix
\* follows the name.
C4_NoSuffixOutsideSpecialCased ==
    \A i \in IconIds :
        (icons[i].mounted /\ ToLowerCase(icons[i].connection) \notin SpecialCased)
            => /\ icons[i].src = basePath \o Str_ImgLibraries
                                   \o ToLowerCase(icons[i].connection) \o Str_IconSvg
               /\ ~HasDarkSuffix(icons[i].src)

\* 'Postgres' rendered under a dark theme.
C4_Witness ==
    /\ resolvedTheme = Str_dark
    /\ \E i \in IconIds :
        /\ icons[i].mounted
        /\ icons[i].connection = <<"P", "o", "s", "t", "g", "r", "e", "s">>
        /\ ~HasDarkSuffix(icons[i].src)

Str_nextjs_dark_icon ==
    Str_ImgLibraries \o <<"n", "e", "x", "t", "j", "s", "-", "d", "a", "r", "k">> \o Str_IconSvg

Str_postgres_icon ==
    Str_ImgLibraries \o <<"p", "o", "s", "t", "g", "r", "e", "s">> \o Str_IconSvg

\* C5: the path is BASE_PATH + '/img/libraries/' + lowercase(c) + s +
\* '-icon.svg' with s '-dark' or ''; 'nextjs' under the dark theme gives
\* BASE_PATH/img/libraries/nextjs-dark-icon.svg, 'postgres' under any theme
\* BASE_PATH/img/libraries/postgres-icon.svg, and two names that differ only
\* in letter case give the same path.
C5_PathShape ==
    \A i \in IconIds :
        icons[i].mounted =>
            /\ \E s \in {Str_DarkSuffix, <<>>} :
                  icons[i].src = basePath \o Str_ImgLibraries
                                    \o ToLowerCase(icons[i].connection) \o s \o Str_IconSvg
            /\ (icons[i].connection = Str_nextjs /\ resolvedTheme = Str_dark)
                   => icons[i].src = basePath \o Str_nextjs_dark_icon
            /\ icons[i].connection = Str_postgres
                   => icons[i].src = basePath \o Str_postgres_icon
            /\ \A j \in IconIds :
                  (/\ icons[j].mounted
                   /\ ToLowerCase(icons[j].connection) = ToLowerCase(icons[i].connection))
                      => icons[j].src = icons[i].src

\* 'NextJS' and 'nextjs' side by side under the dark theme.
C5_Witness ==
    /\ resolvedTheme = Str_dark
    /\ \E i, j \in IconIds :
        /\ icons[i].mounted /\ icons[i].connection = <<"N", "e", "x", "t", "J", "S">>
        /\ icons[j].mounted /\ icons[j].connection = Str_nextjs
        /\ icons[i].src = basePath \o Str_nextjs_dark_icon
        /\ icons[j].src = icons[i].src

====
